---- MODULE Spec2Model ----
(***************************************************************************)
(* SecureBank fraud detection backend (backend/main.py).                   *)
(*                                                                         *)
(* State: the six module globals of main.py, the position of the startup  *)
(* hook, the rows it read, and the last request the service answered.     *)
(*                                                                         *)
(* Units.  Coordinates are exact rationals <<num, den>> counted in 1e-4   *)
(* degree (39.8283 is <<398283, 1>>, the offset 0.01 is 100).  Amounts    *)
(* are in cents.  Probabilities are integers counted in 1e-5.             *)
(*                                                                         *)
(* Scope.  Every cell of the reference dataset is present (no missing     *)
(* values).  The classifier is opaque: predict_proba returns any          *)
(* probability of the set the action is given, whatever the feature row   *)
(* (which also carries wall-clock features and the haversine distance,    *)
(* neither of which reaches the response other than through the           *)
(* classifier).                                                            *)
(***************************************************************************)
EXTENDS Integers, Sequences, FiniteSets, TLC

VARIABLES
    lifespan,             \* "on": the host runs the startup hook before serving; "off": it never runs it
    artifact_ok,          \* the file at MODEL_PATH loads
    dataset_ok,           \* the file at DATA_PATH reads and parses
    dataset,              \* the rows of the file at DATA_PATH
    pc,                   \* position of startup()
    df,                   \* startup's local df
    model,
    city_lookup,
    merchant_lookup,
    available_merchants,
    available_categories,
    available_cities,
    writes,               \* per global name, the number of assignments made to it
    last                  \* the last request answered, with what its handler did

vars == <<lifespan, artifact_ok, dataset_ok, dataset, pc, df, model, city_lookup,
          merchant_lookup, available_merchants, available_categories,
          available_cities, writes, last>>

env == <<lifespan, artifact_ok, dataset_ok, dataset>>

globals == <<model, city_lookup, merchant_lookup, available_merchants,
             available_categories, available_cities>>

----------------------------------------------------------------------------
(* Bounds and input universes *)

MaxRows == 2

\* Every string of the model, in Python's str order (code point order).
Names == <<"Acme", "Austin", "Bolt", "Boston", "KS", "MA", "Nowhere", "OK",
           "TX", "Zeta", "food", "travel">>

Row(m, cat, c, st, z, la, lo, pop, mla, mlo) ==
    [merchant |-> m, category |-> cat, city |-> c, state |-> st, zip |-> z,
     lat |-> la, long |-> lo, city_pop |-> pop, merch_lat |-> mla, merch_long |-> mlo]

RowPool ==
    { Row("Bolt", "travel", "Boston", "MA", 2108, 423601, -710589, 650000, 424000, -710000),
      Row("Acme", "food", "Austin", "TX", 73301, 302672, -977431, 950000, 303000, -977000),
      Row("Acme", "travel", "Austin", "OK", 74720, 340001, -963000, 800, 350001, -960000) }

Datasets == UNION { [1..n -> RowPool] : n \in 0..MaxRows }

\* Request bodies: JSON objects, a function from the fields present to their values.
Fields == {"amount", "merchant", "category", "city"}

Body(D, a, m, cat, c) ==
    [f \in D |-> CASE f = "amount" -> a
                   [] f = "merchant" -> m
                   [] f = "category" -> cat
                   [] OTHER -> c]

FullBodies ==
    { Body(Fields, a, m, cat, c) :
        a \in {0, 2500}, m \in {"Acme", "Bolt", "Zeta"},
        cat \in {"food", "travel"}, c \in {"Austin", "Boston", "Nowhere"} }

NegativeBodies ==
    { Body(Fields, -100, m, "food", "Austin") : m \in {"Acme", "Zeta"} }

PartialBodies ==
    { Body(Fields \ {f}, a, "Acme", "food", "Austin") : f \in Fields, a \in {0, 2500} }

Bodies == FullBodies \cup NegativeBodies \cup PartialBodies

\* Classifier outputs at and around the rounding and bucket boundaries.
Probas == {0, 500, 39499, 39500, 68500, 69499, 69500, 100000}

\* One output at, just below half, and at half above every score 0..100.
ScoreProbas == { p \in { k * 1000 + d : k \in 0..100, d \in {0, 499, 500} } : p <= 100000 }

----------------------------------------------------------------------------
(* Values *)

None == "None"
Unloaded == "CatBoostClassifier()"
Loaded == "CatBoostClassifier(loaded)"
NoDf == <<>>
GlobalNames == {"model", "city_lookup", "merchant_lookup", "available_merchants",
                "available_categories", "available_cities"}

Range(s) == { s[i] : i \in DOMAIN s }

Abs(x) == IF x < 0 THEN -x ELSE x

RECURSIVE GCD(_, _)
GCD(a, b) == IF b = 0 THEN a ELSE GCD(b, a % b)

\* The rational n/d (d > 0) in lowest terms.
Rat(n, d) == LET g == GCD(Abs(n), d) IN <<n \div g, d \div g>>

RatAdd(r, k) == Rat(r[1] + k * r[2], r[2])

RECURSIVE Sum(_)
Sum(s) == IF s = <<>> THEN 0 ELSE Head(s) + Sum(Tail(s))

Column(rows, col) == [i \in DOMAIN rows |-> rows[i][col]]


----------------------------------------------------------------------------
(* pandas and builtins used by startup *)

\* Series.mean(): the arithmetic mean, exactly.
Mean(s) == Rat(Sum(s), Len(s))

\* agg "first": the value of the group's first row, in file order.
First(s) == s[1]

\* The rows of one group, in file order.
Group(rows, col, key) == SelectSeq(rows, LAMBDA r : r[col] = key)

\* CityGroup grouped by state.
CityGroupByState(rows) ==
    [c \in Range(Column(rows, "state")) |->
        LET g == Group(rows, "state", c)
        IN  [lat |-> Mean(Column(g, "lat")),
             long |-> Mean(Column(g, "long")),
             state |-> First(Column(g, "state")),
             zip |-> First(Column(g, "zip")),
             city_pop |-> First(Column(g, "city_pop"))]]

\* df.groupby("city").agg({...}).to_dict(orient="index")
CityGroup(rows) ==
    [c \in Range(Column(rows, "city")) |->
        LET g == Group(rows, "city", c)
        IN  [lat |-> Mean(Column(g, "lat")),
             long |-> Mean(Column(g, "long")),
             state |-> First(Column(g, "state")),
             zip |-> First(Column(g, "zip")),
             city_pop |-> First(Column(g, "city_pop"))]]

\* df.groupby("merchant").agg({...}).to_dict(orient="index")
MerchGroup(rows) ==
    [m \in Range(Column(rows, "merchant")) |->
        LET g == Group(rows, "merchant", m)
        IN  [merch_lat |-> Mean(Column(g, "merch_lat")),
             merch_long |-> Mean(Column(g, "merch_long"))]]

\* Series.unique().tolist(): the distinct values in order of first appearance.
RECURSIVE Unique(_)
Unique(s) ==
    IF s = <<>> THEN <<>>
    ELSE LET r == Unique(SubSeq(s, 1, Len(s) - 1))
             x == s[Len(s)]
         IN  IF x \in Range(r) THEN r ELSE Append(r, x)

Pos(name) == CHOOSE i \in DOMAIN Names : Names[i] = name

\* Python's a < b on str.
StrLess(a, b) == Pos(a) < Pos(b)

RECURSIVE Insert(_, _)
Insert(x, s) ==
    IF s = <<>> THEN <<x>>
    ELSE IF StrLess(x, Head(s)) THEN <<x>> \o s
    ELSE <<Head(s)>> \o Insert(x, Tail(s))

\* sorted with the sort left out.
sortedNot(s) == s

\* sorted(list): ascending, keeping every element.
RECURSIVE sorted(_)
sorted(s) == IF s = <<>> THEN <<>> ELSE Insert(s[Len(s)], sorted(SubSeq(s, 1, Len(s) - 1)))

Options(rows, col) == sorted(Unique(Column(rows, col)))

----------------------------------------------------------------------------
(* predict's computations *)

\* TransactionRequest with ge=0 for gt=0.
TransactionRequestGe(body) == Fields \subseteq DOMAIN body /\ body["amount"] >= 0

\* TransactionRequest: all four fields required, amount > 0.
TransactionRequest(body) == Fields \subseteq DOMAIN body /\ body["amount"] > 0

\* ModelIsNone with the guard dropped.
ModelIsNoneNever(m) == FALSE

\* ModelIsNone with the test inverted.
ModelIsNoneInverted(m) == m # None

\* "model is None"
ModelIsNone(m) == m = None

FallbackLat == 398283
FallbackLong == -985795
FallbackZip == 66101
FallbackPop == 50000
MerchOffset == 100

\* ResolveCity with the latitude read for the longitude.
ResolveCityLatTwice(lookup, city) ==
    IF city \notin DOMAIN lookup
    THEN [lat |-> <<FallbackLat, 1>>, long |-> <<FallbackLong, 1>>, state |-> "KS",
          zip |-> FallbackZip, city_pop |-> FallbackPop, fallback |-> TRUE]
    ELSE [lat |-> lookup[city].lat, long |-> lookup[city].lat,
          state |-> lookup[city].state, zip |-> lookup[city].zip,
          city_pop |-> lookup[city].city_pop, fallback |-> FALSE]

\* city_lookup.get(txn.city) and the branch on it
ResolveCity(lookup, city) ==
    IF city \notin DOMAIN lookup
    THEN [lat |-> <<FallbackLat, 1>>, long |-> <<FallbackLong, 1>>, state |-> "KS",
          zip |-> FallbackZip, city_pop |-> FallbackPop, fallback |-> TRUE]
    ELSE [lat |-> lookup[city].lat, long |-> lookup[city].long,
          state |-> lookup[city].state, zip |-> lookup[city].zip,
          city_pop |-> lookup[city].city_pop, fallback |-> FALSE]

\* ResolveMerchant with the offset left off the longitude.
ResolveMerchantNoLongOffset(lookup, merchant, lat, lon) ==
    IF merchant \notin DOMAIN lookup
    THEN [merch_lat |-> RatAdd(lat, MerchOffset), merch_long |-> lon, fallback |-> TRUE]
    ELSE [merch_lat |-> lookup[merchant].merch_lat,
          merch_long |-> lookup[merchant].merch_long, fallback |-> FALSE]

\* merchant_lookup.get(txn.merchant) and the branch on it
ResolveMerchant(lookup, merchant, lat, lon) ==
    IF merchant \notin DOMAIN lookup
    THEN [merch_lat |-> RatAdd(lat, MerchOffset), merch_long |-> RatAdd(lon, MerchOffset),
          fallback |-> TRUE]
    ELSE [merch_lat |-> lookup[merchant].merch_lat,
          merch_long |-> lookup[merchant].merch_long, fallback |-> FALSE]

\* round(): n/d (n >= 0, d > 0) to the nearest integer, ties to even.
RoundHalfEven(n, d) ==
    LET q == n \div d
        r == n % d
    IN  IF 2 * r < d THEN q
        ELSE IF 2 * r > d THEN q + 1
        ELSE IF q % 2 = 0 THEN q ELSE q + 1

\* int(round(proba * 100)), proba counted in 1e-5
RiskScore(proba) == RoundHalfEven(proba * 100, 100000)

\* round(proba, 4), counted in 1e-4
Probability(proba) == RoundHalfEven(proba, 10)

\* RiskBucket with "> 70" for ">= 70".
RiskBucketStrict(risk_score) ==
    IF risk_score > 70 THEN <<"High", "Block">>
    ELSE IF risk_score >= 40 THEN <<"Medium", "Require OTP">>
    ELSE <<"Low", "Approve">>

\* the if / elif / else on risk_score: <<risk_level, decision>>
RiskBucket(risk_score) ==
    IF risk_score >= 70 THEN <<"High", "Block">>
    ELSE IF risk_score >= 40 THEN <<"Medium", "Require OTP">>
    ELSE <<"Low", "Approve">>

PredictionResponse(proba) ==
    LET risk_score == RiskScore(proba)
    IN  [risk_score |-> risk_score, probability |-> Probability(proba),
         risk_level |-> RiskBucket(risk_score)[1], decision |-> RiskBucket(risk_score)[2]]


----------------------------------------------------------------------------
(* The service *)

\* GlobalDecl with available_cities left out of the global statement.
GlobalDeclShort == GlobalNames \ {"available_cities"}

\* "global model, city_lookup, ..." in startup: the names its assignments bind globally.
GlobalDecl == GlobalNames

\* name = value inside startup: binds the global when declared global, a local otherwise.
Assign(name, value, current) == IF name \in GlobalDecl THEN value ELSE current

Written(names) ==
    [g \in GlobalNames |-> IF g \in names \cap GlobalDecl THEN writes[g] + 1 ELSE writes[g]]

NoAnswer ==
    [op |-> "none", txn |-> <<>>, status |-> 0, body |-> <<>>, lookups |-> {},
     fallbacks |-> {}, invoked |-> FALSE, resolved |-> <<>>]

Answer(op, txn, status, body, lookups, fallbacks, invoked, resolved) ==
    [op |-> op, txn |-> txn, status |-> status, body |-> body, lookups |-> lookups,
     fallbacks |-> fallbacks, invoked |-> invoked, resolved |-> resolved]

\* @app.on_event("startup"): a host that runs the lifespan serves requests only
\* once the hook has returned, and exits when it raises; a host that does not
\* run the lifespan serves without ever calling the hook.
Serving == IF lifespan = "on" THEN pc = "done" ELSE pc = "init"

Init ==
    /\ lifespan \in {"on", "off"}
    /\ artifact_ok \in BOOLEAN
    /\ dataset_ok \in BOOLEAN
    /\ dataset \in Datasets
    /\ pc = "init"
    /\ df = NoDf
    /\ model = None
    /\ city_lookup = <<>>
    /\ merchant_lookup = <<>>
    /\ available_merchants = <<>>
    /\ available_categories = <<>>
    /\ available_cities = <<>>
    /\ writes = [g \in GlobalNames |-> 0]
    /\ last = NoAnswer

\* model = CatBoostClassifier()
startup_new_model ==
    /\ lifespan = "on"
    /\ pc = "init"
    /\ model' = Assign("model", Unloaded, model)
    /\ writes' = Written({"model"})
    /\ pc' = "new"
    /\ UNCHANGED <<env, df, city_lookup, merchant_lookup, available_merchants,
                   available_categories, available_cities, last>>

\* model.load_model(MODEL_PATH): loads into the object, or raises out of startup.
startup_load_model ==
    /\ pc = "new"
    /\ IF artifact_ok
       THEN /\ model' = Assign("model", Loaded, model)
            /\ pc' = "loaded"
       ELSE /\ model' = model
            /\ pc' = "failed"
    /\ UNCHANGED <<env, df, city_lookup, merchant_lookup, available_merchants,
                   available_categories, available_cities, writes, last>>

\* startup_read_csv with the read failure caught and an empty frame used instead.
startup_read_csv_swallow ==
    /\ pc = "loaded"
    /\ df' = IF dataset_ok THEN dataset ELSE <<>>
    /\ pc' = "read"
    /\ UNCHANGED <<env, globals, writes, last>>

\* df = pd.read_csv(DATA_PATH, usecols=cols_needed): the rows, or raises out of startup.
startup_read_csv ==
    /\ pc = "loaded"
    /\ IF dataset_ok
       THEN /\ df' = dataset
            /\ pc' = "read"
       ELSE /\ df' = df
            /\ pc' = "failed"
    /\ UNCHANGED <<env, globals, writes, last>>

\* the two lookup tables and the three option lists, then startup returns.
startup_build_lookups ==
    /\ pc = "read"
    /\ city_lookup' = Assign("city_lookup", CityGroup(df), city_lookup)
    /\ merchant_lookup' = Assign("merchant_lookup", MerchGroup(df), merchant_lookup)
    /\ available_merchants' = Assign("available_merchants", Options(df, "merchant"), available_merchants)
    /\ available_categories' = Assign("available_categories", Options(df, "category"), available_categories)
    /\ available_cities' = Assign("available_cities", Options(df, "city"), available_cities)
    /\ writes' = Written(GlobalNames \ {"model"})
    /\ pc' = "done"
    /\ UNCHANGED <<env, df, model, last>>

\* GET /health
health ==
    /\ Serving
    /\ last' = Answer("health", <<>>, 200,
                      [status |-> "ok", model_loaded |-> ~ModelIsNone(model)],
                      {}, {}, FALSE, <<>>)
    /\ UNCHANGED <<env, pc, df, globals, writes>>

\* GET /options
get_options ==
    /\ Serving
    /\ last' = Answer("options", <<>>, 200,
                      [merchants |-> available_merchants,
                       categories |-> available_categories,
                       cities |-> available_cities],
                      {}, {}, FALSE, <<>>)
    /\ UNCHANGED <<env, pc, df, globals, writes>>

\* What POST /predict answers to `body` when the classifier returns `proba`.
PredictAnswer(body, proba) ==
    IF ~TransactionRequest(body)
    THEN Answer("predict", body, 422, [detail |-> "validation error"], {}, {}, FALSE, <<>>)
    ELSE IF ModelIsNone(model)
    THEN Answer("predict", body, 503, [detail |-> "Model not loaded yet"], {}, {}, FALSE, <<>>)
    ELSE LET c == ResolveCity(city_lookup, body["city"])
             m == ResolveMerchant(merchant_lookup, body["merchant"], c.lat, c.long)
             resolved == [lat |-> c.lat, long |-> c.long, state |-> c.state,
                          zip |-> c.zip, city_pop |-> c.city_pop,
                          merch_lat |-> m.merch_lat, merch_long |-> m.merch_long]
             fallbacks == (IF c.fallback THEN {"city"} ELSE {})
                            \cup (IF m.fallback THEN {"merchant"} ELSE {})
         IN  IF model = Loaded
             THEN Answer("predict", body, 200, PredictionResponse(proba),
                         {"city", "merchant"}, fallbacks, TRUE, resolved)
             ELSE Answer("predict", body, 500, [detail |-> "Internal Server Error"],
                         {"city", "merchant"}, fallbacks, TRUE, resolved)

\* POST /predict
predict(body, proba) ==
    /\ Serving
    /\ last' = PredictAnswer(body, proba)
    /\ UNCHANGED <<env, pc, df, globals, writes>>

Next ==
    \/ startup_new_model
    \/ startup_load_model
    \/ startup_read_csv
    \/ startup_build_lookups
    \/ health
    \/ get_options
    \/ \E body \in Bodies, proba \in Probas : predict(body, proba)

Spec == Init /\ [][Next]_vars

----------------------------------------------------------------------------
(* Risk scoring over every score, on a service that has started *)

RiskDataset ==
    << Row("Bolt", "travel", "Boston", "MA", 2108, 423601, -710589, 650000, 424000, -710000),
       Row("Acme", "food", "Austin", "TX", 73301, 302672, -977431, 950000, 303000, -977000) >>

RiskBodies == { Body(Fields, 2500, "Acme", "food", c) : c \in {"Austin", "Nowhere"} }

InitRisk ==
    /\ lifespan = "on"
    /\ artifact_ok = TRUE
    /\ dataset_ok = TRUE
    /\ dataset = RiskDataset
    /\ pc = "done"
    /\ df = RiskDataset
    /\ model = Loaded
    /\ city_lookup = CityGroup(RiskDataset)
    /\ merchant_lookup = MerchGroup(RiskDataset)
    /\ available_merchants = Options(RiskDataset, "merchant")
    /\ available_categories = Options(RiskDataset, "category")
    /\ available_cities = Options(RiskDataset, "city")
    /\ writes = [g \in GlobalNames |-> 1]
    /\ last = NoAnswer

NextRisk == \E body \in RiskBodies, proba \in ScoreProbas : predict(body, proba)

SpecRisk == InitRisk /\ [][NextRisk]_vars


----------------------------------------------------------------------------
(* Properties *)

ColumnSet(rows, col) == { rows[i][col] : i \in DOMAIN rows }

StrictlyAscending(l) == \A i, j \in DOMAIN l : i < j => StrLess(l[i], l[j])

\* The sum of `col` over the rows of `rows` whose `key` column is `k`.
GroupSum(rows, key, k, col) ==
    LET RECURSIVE Upto(_)
        Upto(n) == IF n = 0 THEN 0
                   ELSE Upto(n - 1) + (IF rows[n][key] = k THEN rows[n][col] ELSE 0)
    IN  Upto(Len(rows))

GroupSize(rows, key, k) == Cardinality({ i \in DOMAIN rows : rows[i][key] = k })

GroupFirst(rows, key, k) ==
    rows[CHOOSE i \in DOMAIN rows :
            rows[i][key] = k /\ \A j \in DOMAIN rows : rows[j][key] = k => i <= j]

\* The rational r is the mean of `col` over the group k.
IsGroupMean(r, rows, key, k, col) ==
    r[2] > 0 /\ r[1] * GroupSize(rows, key, k) = r[2] * GroupSum(rows, key, k, col)

Predicted == last.op = "predict" /\ last.status = 200

\* C1: every prediction carries a risk_score in 0..100 and the pair its bucket
\* prescribes: 0-39 Low/Approve, 40-69 Medium/Require OTP, 70-100 High/Block.
C1_RiskBucketing ==
    Predicted =>
        LET s == last.body.risk_score
            pair == <<last.body.risk_level, last.body.decision>>
        IN  /\ s \in 0..100
            /\ s \in 0..39 => pair = <<"Low", "Approve">>
            /\ s \in 40..69 => pair = <<"Medium", "Require OTP">>
            /\ s \in 70..100 => pair = <<"High", "Block">>

C1_Witness ==
    Predicted /\ last.body.risk_score = 70 /\ last.body.risk_level = "High"

\* C2 as stated: every POST /predict answered before startup has completed is
\* answered 503 "Model not loaded yet", without the classifier being invoked.
C2_Original ==
    (last.op = "predict" /\ pc # "done") =>
        /\ last.status = 503
        /\ last.body.detail = "Model not loaded yet"
        /\ ~last.invoked

\* C2 amended: a POST /predict answered before startup has completed never invokes
\* the classifier nor returns a prediction; it is answered 503 "Model not loaded
\* yet" when its body passes validation, and with the validation error otherwise.
C2_Amended ==
    (last.op = "predict" /\ pc # "done") =>
        /\ ~last.invoked
        /\ last.status # 200
        /\ IF Fields \subseteq DOMAIN last.txn /\ last.txn["amount"] > 0
           THEN last.status = 503 /\ last.body.detail = "Model not loaded yet"
           ELSE last.status = 422

C2_Witness ==
    last.op = "predict" /\ pc # "done" /\ last.status = 503 /\ last.txn["amount"] > 0

C4_Validation ==
    (last.op = "predict" /\ ((\E f \in Fields : f \notin DOMAIN last.txn) \/ last.txn["amount"] <= 0)) =>
        /\ last.status = 422
        /\ last.lookups = {}
        /\ ~last.invoked

C4_Witness ==
    /\ last.op = "predict" /\ last.status = 422
    /\ Fields \subseteq DOMAIN last.txn /\ last.txn["amount"] = 0
    /\ model = Loaded

\* C5: each of the six globals is assigned at most once, exactly once by the time
\* startup has completed, only by a step of startup and only while no request has
\* been answered; a step that answers a request leaves all six unchanged.
C5_WrittenOnce ==
    /\ [](\A g \in GlobalNames : writes[g] <= 1 /\ (pc = "done" => writes[g] = 1))
    /\ [][(globals' # globals \/ writes' # writes) =>
            (pc' # pc /\ last = NoAnswer /\ last' = last)]_vars
    /\ [][last' # last => (globals' = globals /\ writes' = writes)]_vars

C5_Witness ==
    /\ Predicted /\ pc = "done" /\ last.fallbacks # {}
    /\ \A g \in GlobalNames : writes[g] = 1

\* C6: when the artifact or the dataset cannot be read and startup is run, no request
\* is ever answered, a failed startup takes no further step, and whenever a request
\* has been answered with the model set, every table and list is complete.
C6_FatalStartup ==
    /\ []((lifespan = "on" /\ ~(artifact_ok /\ dataset_ok)) => last = NoAnswer)
    /\ []((last.op # "none" /\ model # None) =>
            /\ pc = "done"
            /\ DOMAIN city_lookup = ColumnSet(dataset, "city")
            /\ DOMAIN merchant_lookup = ColumnSet(dataset, "merchant")
            /\ Range(available_merchants) = ColumnSet(dataset, "merchant")
            /\ Range(available_categories) = ColumnSet(dataset, "category")
            /\ Range(available_cities) = ColumnSet(dataset, "city"))
    /\ [][pc = "failed" => vars' = vars]_vars

C6_Witness ==
    pc = "failed" /\ model = Loaded /\ DOMAIN city_lookup = {} /\ dataset # <<>>

C8_MerchantResolution ==
    (last.op = "predict" /\ "merchant" \in last.lookups) =>
        LET m == last.txn["merchant"]
            r == last.resolved
        IN  IF m \in DOMAIN merchant_lookup
            THEN /\ IsGroupMean(r.merch_lat, dataset, "merchant", m, "merch_lat")
                 /\ IsGroupMean(r.merch_long, dataset, "merchant", m, "merch_long")
            ELSE /\ r.merch_lat[2] > 0 /\ r.merch_long[2] > 0
                 /\ r.merch_lat[1] * r.lat[2] = (r.lat[1] + 100 * r.lat[2]) * r.merch_lat[2]
                 /\ r.merch_long[1] * r.long[2] = (r.long[1] + 100 * r.long[2]) * r.merch_long[2]
                 /\ last.txn["city"] \notin DOMAIN city_lookup =>
                        r.merch_lat = <<398383, 1>> /\ r.merch_long = <<-985695, 1>>

C8_Witness ==
    /\ Predicted /\ last.fallbacks = {"merchant"}
    /\ last.resolved.lat[2] = 2
    /\ last.resolved.merch_lat[2] = 2

====
